---- MODULE Spec2Model ----
(***************************************************************************)
(* Model of dns_traffic_generator.py: the schedule test scheduled(), the   *)
(* wait computation calc_wait()/wait_for_schedule(), the dispatch pass     *)
(* generate_queries() and the control loop of main().                      *)
(*                                                                         *)
(* Times of day are integer seconds since midnight (datetime.timedelta     *)
(* with whole seconds); 'HHMM' strings are sequences of decimal digits.    *)
(***************************************************************************)
EXTENDS Integers, Sequences, FiniteSets, Bags, TLC

VARIABLES
    qfile,        \* the query file named on the command line, and its format
    config,       \* the loaded configuration (main: config)
    runonce,      \* args.runonce
    rtime,        \* main: rtime
    loaded,       \* the corpus as build_queries returned it
    qlist,        \* main: qlist, shuffled in place by generate_queries
    weekday,      \* the clock: datetime.now().weekday(), 0 = Monday
    tod,          \* the clock: seconds since midnight
    pc,           \* position of the program
    run,          \* main: run
    sched,        \* the value the last scheduled(config) call returned
    now_delta,    \* wait_for_schedule: now_delta
    start_delta,  \* wait_for_schedule: start_delta
    end_delta,    \* wait_for_schedule: end_delta
    wait,         \* wait_for_schedule: wait (the value calc_wait returned)
    idx,          \* generate_queries: number of records of qlist already iterated
    successful,   \* generate_queries: successful
    failed,       \* generate_queries: failed
    attempts,     \* the resolution attempts of the current pass, in order
    result,       \* main: (sucess, failed)
    caller,       \* which call of generate_queries is running: "once" or "loop"
    hist          \* counters of what has happened so far

vars == << qfile, config, runonce, rtime, loaded, qlist, weekday, tod, pc, run, sched,
           now_delta, start_delta, end_delta, wait, idx, successful, failed,
           attempts, result, caller, hist >>

----------------------------------------------------------------------------
(* Bounds of the model *)

\* hours 0..MaxHour (and 23) are used for the clock and the window
MaxHour == 1
\* minutes 0..MaxMinute (and 59) are used for the clock and the window
MaxMinute == 1
\* seconds 0..MaxSecond (and 59) are used for the clock
MaxSecond == 0
\* the corpus has at most MaxCorpus records
MaxCorpus == 2
\* main's loop evaluates scheduled() at most MaxIter times
MaxIter == 2

----------------------------------------------------------------------------
(* Program constants *)

\* datetime.timedelta(days=1), in seconds
day == 86400
\* rtime when the configuration sets none
DefaultRtime == 11
\* random.randint(1,21)
PauseMin == 1
PauseMax == 21

days_of_week == << "Mon", "Tue", "Wed", "Thu", "Fri", "Sat", "Sun" >>

----------------------------------------------------------------------------
(* 'HHMM' strings *)

\* int(s) of a string of decimal digits
RECURSIVE int(_)
int(s) ==
    IF Len(s) = 0 THEN 0
    ELSE 10 * int(SubSeq(s, 1, Len(s) - 1)) + s[Len(s)]

\* now.strftime('%H%M') of a time of day in seconds
strftime_HM(t) ==
    LET h == t \div 3600
        m == (t % 3600) \div 60
    IN  << h \div 10, h % 10, m \div 10, m % 10 >>

\* datetime.timedelta(hours, minutes, seconds) in seconds
timedelta(h, m, s) == h * 3600 + m * 60 + s

convert_to_delta(stime) ==
    LET hours   == int(SubSeq(stime, 1, Len(stime) - 2))
        minutes == int(SubSeq(stime, 3, Len(stime)))
    IN  timedelta(hours, minutes, 0)

----------------------------------------------------------------------------
(* The schedule of a configuration.  A configuration is a record           *)
(*   has_schedule : 'schedule' in config.keys()                            *)
(*   continuous   : config['schedule'].get('continuous') is true           *)
(*   has_days     : the schedule has a days_of_week entry                  *)
(*   days         : the names listed in days_of_week                       *)
(*   start_time, end_time : 'HHMM' strings, << >> when unset               *)
(*   rtime        : config.get('rtime'), 0 when unset                      *)

\* start_time of the schedule as a timedelta, midnight when unset
schedule_start(cfg) ==
    IF cfg.start_time # << >>
    THEN convert_to_delta(cfg.start_time)
    ELSE convert_to_delta(<< 0, 0, 0, 0 >>)

\* end_time of the schedule as a timedelta, 23:59 when unset
schedule_end(cfg) ==
    IF cfg.end_time # << >>
    THEN convert_to_delta(cfg.end_time)
    ELSE convert_to_delta(<< 2, 3, 5, 9 >>)

\* 'week_day in config["schedule"].get("days_of_week")' raises TypeError
\* when the schedule has no days_of_week
days_lookup_raises(cfg) ==
    cfg.has_schedule /\ ~cfg.continuous /\ ~cfg.has_days

\* scheduled() with the continuous flag honoured only on listed weekdays
scheduled_continuous_after_days(cfg, wd, t) ==
    IF cfg.has_schedule
    THEN IF days_of_week[wd + 1] \in cfg.days
         THEN cfg.continuous
              \/ (schedule_start(cfg) < convert_to_delta(strftime_HM(t))
                  /\ convert_to_delta(strftime_HM(t)) < schedule_end(cfg))
         ELSE FALSE
    ELSE FALSE

\* scheduled(config) evaluated when the clock shows weekday wd, time of day t
scheduled(cfg, wd, t) ==
    IF cfg.has_schedule
    THEN IF cfg.continuous
         THEN TRUE
         ELSE LET week_day == days_of_week[wd + 1]
              IN  IF week_day \in cfg.days
                  THEN LET start_time   == schedule_start(cfg)
                           end_time     == schedule_end(cfg)
                           current_time == convert_to_delta(strftime_HM(t))
                       IN  start_time < current_time /\ current_time < end_time
                  ELSE FALSE
    ELSE FALSE

\* calc_wait() that forgets to add stime when waiting for tomorrow
calc_wait_no_start(ntime, stime, etime) ==
    IF ntime < stime THEN stime - ntime
    ELSE IF ntime > etime THEN day - ntime
    ELSE 0

\* calc_wait() with the same-day difference taken the wrong way round
calc_wait_swapped(ntime, stime, etime) ==
    IF ntime < stime THEN ntime - stime
    ELSE IF ntime > etime THEN day - ntime + stime
    ELSE 0

\* calc_wait() that treats ntime = etime as past the window
calc_wait_end_exclusive(ntime, stime, etime) ==
    IF ntime < stime THEN stime - ntime
    ELSE IF ntime >= etime THEN day - ntime + stime
    ELSE 0

\* calc_wait() that tests 'ntime > etime' before 'ntime < stime'
calc_wait_end_first(ntime, stime, etime) ==
    IF ntime > etime THEN day - ntime + stime
    ELSE IF ntime < stime THEN stime - ntime
    ELSE 0

calc_wait(ntime, stime, etime) ==
    IF ntime < stime THEN stime - ntime
    ELSE IF ntime > etime THEN day - ntime + stime
    ELSE 0

----------------------------------------------------------------------------
(* Input domains *)

Hours   == (0 .. MaxHour) \cup { 23 }
Minutes == (0 .. MaxMinute) \cup { 59 }
Seconds == (0 .. MaxSecond) \cup { 59 }

\* the times of day the clock can show
ClockTimes == { timedelta(h, m, s) : h \in Hours, m \in Minutes, s \in Seconds }

\* the 'HHMM' strings a schedule can name
HHMM == { strftime_HM(timedelta(h, m, 0)) : h \in Hours, m \in Minutes }

DaySets == { {}, { "Mon" }, { "Tue", "Sun" },
             { days_of_week[i] : i \in 1 .. 7 } }

NoSchedule ==
    [ has_schedule |-> FALSE, continuous |-> FALSE, has_days |-> FALSE,
      days |-> {}, start_time |-> << >>, end_time |-> << >>, rtime |-> 0 ]

\* the schedules scheduled() is applied to
SchedulesFn ==
    { NoSchedule }
    \cup [ has_schedule : { TRUE }, continuous : { TRUE }, has_days : { FALSE },
           days : { {} }, start_time : HHMM \cup { << >> },
           end_time : HHMM \cup { << >> }, rtime : { 0 } ]
    \cup [ has_schedule : { TRUE }, continuous : { TRUE }, has_days : { TRUE },
           days : { { "Mon" } }, start_time : HHMM \cup { << >> },
           end_time : HHMM \cup { << >> }, rtime : { 0 } ]
    \cup [ has_schedule : { TRUE }, continuous : { FALSE }, has_days : { FALSE },
           days : { {} }, start_time : HHMM \cup { << >> },
           end_time : HHMM \cup { << >> }, rtime : { 0 } ]
    \cup [ has_schedule : { TRUE }, continuous : { FALSE }, has_days : { TRUE },
           days : DaySets, start_time : HHMM \cup { << >> },
           end_time : HHMM \cup { << >> }, rtime : { 0 } ]

----------------------------------------------------------------------------
(* scheduled() as a function of the configuration and the clock *)

\* the query file once build_queries has read it: it plays no further part
NoFile ==
    [ filename |-> "", format |-> "queryperf", isfile |-> FALSE,
      readable |-> FALSE, lines |-> << >> ]

\* the variables main() owns, before main() has started
MainAtRest ==
    /\ qfile = NoFile
    /\ runonce = FALSE
    /\ rtime = DefaultRtime
    /\ loaded = << >>
    /\ qlist = << >>
    /\ run = TRUE
    /\ idx = 0
    /\ successful = 0
    /\ failed = 0
    /\ attempts = << >>
    /\ result = << 0, 0 >>
    /\ caller = "none"
    /\ hist = [ scheduled |-> 0, wait_calls |-> 0, passes |-> 0,
                query_sleeps |-> 0, idle_sleeps |-> 0, pauses |-> 0 ]

InitScheduled ==
    /\ config \in SchedulesFn
    /\ weekday \in 0 .. 6
    /\ tod \in ClockTimes
    /\ pc = "scheduled_call"
    /\ sched = FALSE
    /\ now_delta = 0
    /\ start_delta = 0
    /\ end_delta = 0
    /\ wait = 0
    /\ MainAtRest

CallScheduled ==
    /\ pc = "scheduled_call"
    /\ ~days_lookup_raises(config)
    /\ sched' = scheduled(config, weekday, tod)
    /\ pc' = "scheduled_ret"
    /\ UNCHANGED << qfile, config, runonce, rtime, loaded, qlist, weekday, tod, run,
                    now_delta, start_delta, end_delta, wait, idx, successful,
                    failed, attempts, result, caller, hist >>

CallScheduledRaises ==
    /\ pc = "scheduled_call"
    /\ days_lookup_raises(config)
    /\ pc' = "raised"
    /\ UNCHANGED << qfile, config, runonce, rtime, loaded, qlist, weekday, tod, run,
                    sched, now_delta, start_delta, end_delta, wait, idx,
                    successful, failed, attempts, result, caller, hist >>

NextScheduled == CallScheduled \/ CallScheduledRaises

SpecScheduled == InitScheduled /\ [][NextScheduled]_vars

----------------------------------------------------------------------------
(* calc_wait() as a function of three times of day *)

InitCalcWait ==
    /\ config = NoSchedule
    /\ weekday = 0
    /\ tod = 0
    /\ pc = "calc_wait_call"
    /\ sched = FALSE
    /\ now_delta \in ClockTimes
    /\ start_delta \in ClockTimes
    /\ end_delta \in ClockTimes
    /\ wait = 0
    /\ MainAtRest

CallCalcWait ==
    /\ pc = "calc_wait_call"
    /\ wait' = calc_wait(now_delta, start_delta, end_delta)
    /\ pc' = "calc_wait_ret"
    /\ UNCHANGED << qfile, config, runonce, rtime, loaded, qlist, weekday, tod, run,
                    sched, now_delta, start_delta, end_delta, idx, successful,
                    failed, attempts, result, caller, hist >>

NextCalcWait == CallCalcWait

SpecCalcWait == InitCalcWait /\ [][NextCalcWait]_vars

----------------------------------------------------------------------------
(* main(): run-once mode and the scheduling loop *)

\* the records of the query file
Records == { [ query |-> "www.infoblox.com", qtype |-> "a" ],
             [ query |-> "failme.infoblox.com", qtype |-> "a" ] }

\* the corpora build_queries can return
Corpora == UNION { [ 1 .. n -> Records ] : n \in 0 .. MaxCorpus }

\* what dns.resolver.resolve does: it answers, or raises one of its exceptions
ResolverOutcomes == { "answer", "NXDOMAIN", "Timeout" }

\* the values of rtime in the configuration, 0 when unset
RtimeSettings == { 0, 2 }

\* the start_time and end_time settings of the schedules main() runs with
MainTimes == { << >>, strftime_HM(timedelta(0, MaxMinute, 0)),
               strftime_HM(timedelta(MaxHour, MaxMinute, 0)) }

\* the configurations main() runs with
SchedulesMain ==
    [ has_schedule : { FALSE }, continuous : { FALSE }, has_days : { FALSE },
      days : { {} }, start_time : { << >> }, end_time : { << >> },
      rtime : RtimeSettings ]
    \cup [ has_schedule : { TRUE }, continuous : { TRUE }, has_days : { FALSE },
           days : { {} }, start_time : { << >> }, end_time : { << >> },
           rtime : RtimeSettings ]
    \cup [ has_schedule : { TRUE }, continuous : { FALSE }, has_days : { FALSE },
           days : { {} }, start_time : { << >> }, end_time : { << >> },
           rtime : { 0 } ]
    \cup [ has_schedule : { TRUE }, continuous : { FALSE }, has_days : { TRUE },
           days : { {}, { "Mon" } }, start_time : MainTimes,
           end_time : MainTimes, rtime : { 0 } ]

\* the times of day main() is started at
MainClockTimes ==
    { timedelta(0, 0, 0), timedelta(0, MaxMinute, 0),
      timedelta(0, MaxMinute, 59), timedelta(MaxHour, MaxMinute, 59),
      timedelta(23, 59, 59) }

\* the seconds that pass between scheduled() and wait_for_schedule() reading
\* the clock
Lags == { 0, 1 }

\* random.uniform(0, 11), whatever rtime is
QuerySleeps_default_only(rt) == { 0, DefaultRtime }

\* random.uniform(0, rtime), to the second
QuerySleeps(rt) == { 0, rt }

\* random.randint(0,21)
Pauses_from_zero == { 0, PauseMax }

\* random.randint(1,21)
Pauses == { PauseMin, PauseMax }

\* the clock d seconds after it shows weekday wd and time of day t
clock_after(wd, t, d) ==
    [ weekday |-> (wd + (t + d) \div day) % 7, tod |-> (t + d) % day ]

\* config.get('rtime') if config.get('rtime') else 11
main_rtime(cfg) == IF cfg.rtime # 0 THEN cfg.rtime ELSE DefaultRtime

\* main() with the test of args.runonce inverted
main_branch_inverted(ro) == IF ro THEN "loop" ELSE "once"

\* the branch of 'if not args.runonce' main() takes
main_branch(ro) == IF ~ro THEN "loop" ELSE "once"

\* random.shuffle() drawing every position afresh from the list
shuffle_sample(q) == [ 1 .. Len(q) -> { q[i] : i \in 1 .. Len(q) } ]

\* the orders random.shuffle(qlist) can leave qlist in
shuffle(q) ==
    { [ i \in 1 .. Len(q) |-> q[p[i]] ] : p \in Permutations(1 .. Len(q)) }

\* dns_query(): True when resolve() answers, False when it raises
dns_query(outcome) == outcome = "answer"

\* the counting of generate_queries that counts no failure
tally_successes_only(s, f, status) ==
    IF status THEN << s + 1, f >> ELSE << s, f >>

\* (successful, failed) after one more query of the given status
tally(s, f, status) ==
    IF status THEN << s + 1, f >> ELSE << s, f + 1 >>

\* wait_for_schedule() that sets status = True whatever the configuration
wait_for_schedule_status_always(cfg) == TRUE

\* main() with the test of scheduled(config) inverted
loop_branch_inverted(cfg, wd, t) ==
    IF scheduled(cfg, wd, t) THEN "wait_for_schedule" ELSE "generate_queries"

\* the branch of 'if scheduled(config)' the loop takes
loop_branch(cfg, wd, t) ==
    IF scheduled(cfg, wd, t) THEN "generate_queries" ELSE "wait_for_schedule"

\* wait_for_schedule() that waits a further day when the weekday is not
\* listed
idle_wait_skips_unlisted_day(cfg, wd, nd) ==
    calc_wait(nd, schedule_start(cfg), schedule_end(cfg))
        + (IF days_of_week[wd + 1] \in cfg.days THEN 0 ELSE day)

\* the wait wait_for_schedule(config) computes when the clock shows weekday
\* wd and time of day nd: week_day is only logged
idle_wait(cfg, wd, nd) ==
    calc_wait(nd, schedule_start(cfg), schedule_end(cfg))

\* wait_for_schedule() that never sets status = True
wait_for_schedule_status_never(cfg) == FALSE

\* the status wait_for_schedule(config) returns
wait_for_schedule_status(cfg) == cfg.has_schedule

Init ==
    /\ qfile = NoFile
    /\ config \in SchedulesMain
    /\ runonce \in BOOLEAN
    /\ rtime = main_rtime(config)
    /\ loaded \in Corpora
    /\ qlist = loaded
    /\ weekday \in { 0, 1 }
    /\ tod \in MainClockTimes
    \* the clock is read only in scheduled mode with a windowed schedule:
    \* otherwise main() is started on a Monday, one second before midnight
    /\ (runonce \/ config.continuous \/ ~config.has_schedule) =>
           (weekday = 0 /\ tod = timedelta(23, 59, 59))
    /\ pc = "main"
    /\ run = TRUE
    /\ sched = FALSE
    /\ now_delta = 0
    /\ start_delta = 0
    /\ end_delta = 0
    /\ wait = 0
    /\ idx = 0
    /\ successful = 0
    /\ failed = 0
    /\ attempts = << >>
    /\ result = << 0, 0 >>
    /\ caller = "none"
    /\ hist = [ scheduled |-> 0, wait_calls |-> 0, passes |-> 0,
                query_sleeps |-> 0, idle_sleeps |-> 0, pauses |-> 0 ]

\* generate_queries(qlist, rtime) is called: the counters are zeroed and the
\* list is shuffled in place
EnterGenerateQueries(from) ==
    /\ qlist' \in shuffle(qlist)
    /\ idx' = 0
    /\ successful' = 0
    /\ failed' = 0
    /\ attempts' = << >>
    /\ caller' = from
    /\ pc' = "query"

\* main() with --runonce: generate_queries is called at once
MainRunOnce ==
    /\ pc = "main"
    /\ main_branch(runonce) = "once"
    /\ EnterGenerateQueries("once")
    /\ UNCHANGED << qfile, config, runonce, rtime, loaded, weekday, tod, run, sched,
                    now_delta, start_delta, end_delta, wait, result, hist >>

\* main() without --runonce enters 'while run'
MainLoop ==
    /\ pc = "main"
    /\ main_branch(runonce) = "loop"
    /\ pc' = "while"
    /\ UNCHANGED << qfile, config, runonce, rtime, loaded, qlist, weekday, tod, run,
                    sched, now_delta, start_delta, end_delta, wait, idx,
                    successful, failed, attempts, result, caller, hist >>

\* one iteration of the loop finds scheduled(config) true and starts a pass
LoopScheduled ==
    /\ pc = "while"
    /\ run
    /\ hist.scheduled < MaxIter
    /\ ~days_lookup_raises(config)
    /\ loop_branch(config, weekday, tod) = "generate_queries"
    /\ sched' = scheduled(config, weekday, tod)
    /\ hist' = [ hist EXCEPT !.scheduled = @ + 1 ]
    /\ EnterGenerateQueries("loop")
    /\ UNCHANGED << qfile, config, runonce, rtime, loaded, weekday, tod, run,
                    now_delta, start_delta, end_delta, wait, result >>

\* one iteration of the loop finds scheduled(config) false and calls
\* wait_for_schedule
LoopNotScheduled ==
    /\ pc = "while"
    /\ run
    /\ hist.scheduled < MaxIter
    /\ ~days_lookup_raises(config)
    /\ loop_branch(config, weekday, tod) = "wait_for_schedule"
    /\ sched' = scheduled(config, weekday, tod)
    /\ hist' = [ hist EXCEPT !.scheduled = @ + 1 ]
    /\ pc' = "wait_for_schedule"
    /\ UNCHANGED << qfile, config, runonce, rtime, loaded, qlist, weekday, tod, run,
                    now_delta, start_delta, end_delta, wait, idx, successful,
                    failed, attempts, result, caller >>

\* scheduled(config) raises TypeError: main() ends with the exception
LoopRaises ==
    /\ pc = "while"
    /\ run
    /\ hist.scheduled < MaxIter
    /\ days_lookup_raises(config)
    /\ hist' = [ hist EXCEPT !.scheduled = @ + 1 ]
    /\ pc' = "raised"
    /\ UNCHANGED << qfile, config, runonce, rtime, loaded, qlist, weekday, tod, run,
                    sched, now_delta, start_delta, end_delta, wait, idx,
                    successful, failed, attempts, result, caller >>

\* wait_for_schedule(config) with a schedule: the wait is computed from the
\* clock and slept, status is True, and main() goes on to its pause
WaitForScheduleSleep ==
    /\ pc = "wait_for_schedule"
    /\ wait_for_schedule_status(config)
    /\ \E lag \in Lags :
          LET now == clock_after(weekday, tod, lag)
              nd  == now.tod
              sd  == schedule_start(config)
              ed  == schedule_end(config)
              w   == idle_wait(config, now.weekday, nd)
              woke == clock_after(now.weekday, now.tod, w)
          IN  /\ now_delta' = nd
              /\ start_delta' = sd
              /\ end_delta' = ed
              /\ wait' = w
              /\ weekday' = woke.weekday
              /\ tod' = woke.tod
    /\ run' = TRUE
    /\ hist' = [ hist EXCEPT !.wait_calls = @ + 1, !.idle_sleeps = @ + 1 ]
    /\ pc' = "pause"
    /\ UNCHANGED << qfile, config, runonce, rtime, loaded, qlist, sched, idx,
                    successful, failed, attempts, result, caller >>

\* wait_for_schedule(config) without a schedule: status is False, nothing is
\* slept, 'if run' and 'while run' both fail and main() returns
WaitForScheduleNone ==
    /\ pc = "wait_for_schedule"
    /\ ~wait_for_schedule_status(config)
    /\ wait' = 0
    /\ run' = FALSE
    /\ hist' = [ hist EXCEPT !.wait_calls = @ + 1 ]
    /\ pc' = "done"
    /\ UNCHANGED << qfile, config, runonce, rtime, loaded, qlist, weekday, tod, sched,
                    now_delta, start_delta, end_delta, idx, successful, failed,
                    attempts, result, caller >>

\* generate_queries: the next record of qlist: sleep, resolve, count
Query ==
    /\ pc = "query"
    /\ idx < Len(qlist)
    /\ \E d \in QuerySleeps(rtime), outcome \in ResolverOutcomes :
          LET query  == qlist[idx + 1]
              woke   == clock_after(weekday, tod, d)
              status == dns_query(outcome)
              counts == tally(successful, failed, status)
          IN  /\ weekday' = woke.weekday
              /\ tod' = woke.tod
              /\ successful' = counts[1]
              /\ failed' = counts[2]
              /\ attempts' = Append(attempts, [ query |-> query, status |-> status ])
    /\ idx' = idx + 1
    /\ hist' = [ hist EXCEPT !.query_sleeps = @ + 1 ]
    /\ UNCHANGED << qfile, config, runonce, rtime, loaded, qlist, pc, run, sched,
                    now_delta, start_delta, end_delta, wait, result, caller >>

\* generate_queries returns (successful, failed) to main(), which logs it;
\* in run-once mode main() returns, in the loop it goes on to its pause
ReturnQueries ==
    /\ pc = "query"
    /\ idx = Len(qlist)
    /\ result' = << successful, failed >>
    /\ hist' = [ hist EXCEPT !.passes = @ + 1 ]
    /\ pc' = IF caller = "once" THEN "done" ELSE "pause"
    /\ UNCHANGED << qfile, config, runonce, rtime, loaded, qlist, weekday, tod, run,
                    sched, now_delta, start_delta, end_delta, wait, idx,
                    successful, failed, attempts, caller >>

\* 'if run': the pause between two iterations of the loop
Pause ==
    /\ pc = "pause"
    /\ run
    /\ \E w \in Pauses :
          LET woke == clock_after(weekday, tod, w)
          IN  /\ weekday' = woke.weekday
              /\ tod' = woke.tod
    /\ hist' = [ hist EXCEPT !.pauses = @ + 1 ]
    /\ pc' = "while"
    /\ UNCHANGED << qfile, config, runonce, rtime, loaded, qlist, run, sched,
                    now_delta, start_delta, end_delta, wait, idx, successful,
                    failed, attempts, result, caller >>

Next ==
    \/ MainRunOnce
    \/ MainLoop
    \/ LoopScheduled
    \/ LoopNotScheduled
    \/ LoopRaises
    \/ WaitForScheduleSleep
    \/ WaitForScheduleNone
    \/ Query
    \/ ReturnQueries
    \/ Pause

Spec == Init /\ [][Next]_vars

----------------------------------------------------------------------------
(* build_queries() as a function of the query file.  A line of the file is *)
(* the sequence of tokens line.split() yields.                             *)

\* the file has at most MaxLines lines
MaxLines == 2

\* the lines a query file is made of
FileLines ==
    { << >>,
      << "example.com" >>,
      << "example.com", "A" >>,
      << "example.com", "A", "extra" >>,
      << "query:", "MX" >>,
      << "client", "query:", "example.com", "A" >>,
      << "client", "query:", "example.com" >>,
      << "client", "xquery:", "example.com", "A" >> }

\* the query files build_queries is applied to
QueryFiles ==
    [ filename : { "", "queries" }, format : { "queryperf", "bind" },
      isfile : BOOLEAN, readable : BOOLEAN,
      lines : UNION { [ 1 .. n -> FileLines ] : n \in 0 .. MaxLines } ]

\* the test queries build_queries returns without a file name
DemoCorpus ==
    << [ query |-> "www.google.com", qtype |-> "a" ],
       [ query |-> "www.infoblox.com", qtype |-> "a" ],
       [ query |-> "failme.infoblox.com", qtype |-> "a" ],
       [ query |-> "csp.infoblox.com", qtype |-> "a" ] >>

\* open_file(filename): a handler (TRUE) or False
open_file(f) == f.isfile /\ f.readable

\* 'query:' in token
contains_query(token) == token \in { "query:", "xquery:" }

\* 'query:' in line
query_in_line(q) == \E i \in 1 .. Len(q) : contains_query(q[i])

\* q.index('query:'), 0 when it raises ValueError
index_query(q) ==
    IF \E i \in 1 .. Len(q) : q[i] = "query:"
    THEN CHOOSE i \in 1 .. Len(q) :
            /\ q[i] = "query:"
            /\ \A j \in 1 .. i - 1 : q[j] # "query:"
    ELSE 0

\* what one line does to build_queries: "append" a record, "skip" the line,
\* or "raise" an exception nothing catches
line_effect(format, q) ==
    IF format = "queryperf"
    THEN IF Len(q) = 2 THEN "append" ELSE "skip"
    ELSE IF query_in_line(q)
         THEN IF index_query(q) = 0 THEN "skip"
              ELSE IF index_query(q) + 2 <= Len(q) THEN "append"
              ELSE "raise"
         ELSE "skip"

\* the record a line appends
line_query(format, q) ==
    IF format = "queryperf"
    THEN [ query |-> q[1], qtype |-> q[2] ]
    ELSE [ query |-> q[index_query(q) + 1], qtype |-> q[index_query(q) + 2] ]

\* the queries the loop over the lines has appended after the given lines
RECURSIVE parse_lines(_, _)
parse_lines(format, lines) ==
    IF Len(lines) = 0 THEN << >>
    ELSE LET before == parse_lines(format, SubSeq(lines, 1, Len(lines) - 1))
             q      == lines[Len(lines)]
         IN  IF line_effect(format, q) = "append"
             THEN Append(before, line_query(format, q))
             ELSE before

\* build_queries(filename, format) raises: the handler is False and cannot
\* be iterated, or a line raises
build_queries_raises(f) ==
    /\ f.filename # ""
    /\ f.format \in { "queryperf", "bind" }
    /\ \/ ~open_file(f)
       \/ \E i \in 1 .. Len(f.lines) : line_effect(f.format, f.lines[i]) = "raise"

\* the list build_queries(filename, format) returns
build_queries(f) ==
    IF f.filename # "" /\ f.format \in { "queryperf", "bind" }
    THEN parse_lines(f.format, f.lines)
    ELSE DemoCorpus

InitBuild ==
    /\ qfile \in QueryFiles
    /\ config = NoSchedule
    /\ weekday = 0
    /\ tod = 0
    /\ pc = "build_queries_call"
    /\ sched = FALSE
    /\ now_delta = 0
    /\ start_delta = 0
    /\ end_delta = 0
    /\ wait = 0
    /\ runonce = FALSE
    /\ rtime = DefaultRtime
    /\ loaded = << >>
    /\ qlist = << >>
    /\ run = TRUE
    /\ idx = 0
    /\ successful = 0
    /\ failed = 0
    /\ attempts = << >>
    /\ result = << 0, 0 >>
    /\ caller = "none"
    /\ hist = [ scheduled |-> 0, wait_calls |-> 0, passes |-> 0,
                query_sleeps |-> 0, idle_sleeps |-> 0, pauses |-> 0 ]

\* main: qlist = build_queries(args.queryfile, format=args.queryformat)
CallBuildQueries ==
    /\ pc = "build_queries_call"
    /\ ~build_queries_raises(qfile)
    /\ loaded' = build_queries(qfile)
    /\ qlist' = loaded'
    /\ pc' = "build_queries_ret"
    /\ UNCHANGED << qfile, config, runonce, rtime, weekday, tod, run, sched,
                    now_delta, start_delta, end_delta, wait, idx, successful,
                    failed, attempts, result, caller, hist >>

\* build_queries raises and main() ends with the exception
CallBuildQueriesRaises ==
    /\ pc = "build_queries_call"
    /\ build_queries_raises(qfile)
    /\ pc' = "raised"
    /\ UNCHANGED << qfile, config, runonce, rtime, loaded, qlist, weekday, tod,
                    run, sched, now_delta, start_delta, end_delta, wait, idx,
                    successful, failed, attempts, result, caller, hist >>

NextBuild == CallBuildQueries \/ CallBuildQueriesRaises

SpecBuild == InitBuild /\ [][NextBuild]_vars

----------------------------------------------------------------------------
(* Properties of scheduled(), checked under SpecScheduled *)

\* the clock's time of day to the minute, as a timedelta
ClockHM == (tod \div 60) * 60

\* the clock's weekday is listed in the schedule's days_of_week
WeekdayListed == days_of_week[weekday + 1] \in config.days

\* scheduled() has returned for a schedule that is not continuous
WindowedReturned ==
    /\ pc = "scheduled_ret"
    /\ config.has_schedule
    /\ ~config.continuous

\* C1: for a non-continuous schedule scheduled() is true exactly when the
\* weekday is listed and start_time <= time of day <= end_time, both bounds
\* included.
C1_ScheduledIffInclusiveWindow ==
    WindowedReturned =>
        (sched <=> (/\ WeekdayListed
                    /\ schedule_start(config) <= ClockHM
                    /\ ClockHM <= schedule_end(config)))

\* C2: for a continuous schedule scheduled() is true on every weekday and at
\* every time of day, whatever days_of_week, start_time and end_time are.
C2_ContinuousAlwaysScheduled ==
    (pc = "scheduled_ret" /\ config.has_schedule /\ config.continuous) => sched

\* scheduled() returned true for a continuous schedule without days_of_week
\* whose end_time is before its start_time, on a Sunday night
C2_Witness ==
    /\ pc = "scheduled_ret"
    /\ config.continuous
    /\ ~config.has_days
    /\ config.start_time # << >>
    /\ config.end_time # << >>
    /\ schedule_end(config) < schedule_start(config)
    /\ weekday = 6
    /\ ClockHM > schedule_start(config)
    /\ sched

\* C3: with only days_of_week set, scheduled() is true at every minute of
\* the day, 00:00 to 23:59, on every listed weekday.
C3_DaysOnlySpansWholeDay ==
    (/\ WindowedReturned
     /\ config.start_time = << >>
     /\ config.end_time = << >>
     /\ WeekdayListed) => sched

----------------------------------------------------------------------------
(* Properties of calc_wait(), checked under SpecCalcWait *)

CalcWaitReturned == pc = "calc_wait_ret"

\* C4 as stated: whenever now > end, calc_wait returns (24h - now) + start,
\* also when start > end.
C4_AfterEndWaitsUntilTomorrow ==
    (CalcWaitReturned /\ now_delta > end_delta) =>
        wait = (day - now_delta) + start_delta

\* C4 as amended: whenever now > end and now is not before start, calc_wait
\* returns (24h - now) + start, also when start > end; when now > end and
\* now < start it returns start - now.
C4_AfterEndNotBeforeStart ==
    /\ (CalcWaitReturned /\ now_delta > end_delta /\ now_delta >= start_delta) =>
           wait = (day - now_delta) + start_delta
    /\ (CalcWaitReturned /\ now_delta > end_delta /\ now_delta < start_delta) =>
           wait = start_delta - now_delta

\* calc_wait returned the wait until tomorrow for a window with start > end
C4_Witness ==
    /\ CalcWaitReturned
    /\ start_delta > end_delta
    /\ now_delta > start_delta
    /\ wait = (day - now_delta) + start_delta

\* C5: whenever now < start, calc_wait returns start - now.
C5_BeforeStartWaitsUntilStart ==
    (CalcWaitReturned /\ now_delta < start_delta) =>
        wait = start_delta - now_delta

\* calc_wait returned start - now for a time of day before the window
C5_Witness ==
    /\ CalcWaitReturned
    /\ now_delta < start_delta
    /\ start_delta < end_delta
    /\ wait = start_delta - now_delta
    /\ wait > 0

\* C6: whenever start <= now <= end, calc_wait returns zero.
C6_InsideWindowWaitsZero ==
    (CalcWaitReturned /\ start_delta <= now_delta /\ now_delta <= end_delta) =>
        wait = 0

\* calc_wait returned zero at the last second of the window
C6_Witness ==
    /\ CalcWaitReturned
    /\ start_delta < now_delta
    /\ now_delta = end_delta
    /\ wait = 0

----------------------------------------------------------------------------
(* Properties of generate_queries() and main(), checked under Spec *)

\* the bag of the elements of a sequence
BagOfSeq(s) ==
    [ x \in { s[i] : i \in 1 .. Len(s) } |->
        Cardinality({ i \in 1 .. Len(s) : s[i] = x }) ]

\* the records attempted in the current pass, in order
Attempted == [ i \in 1 .. Len(attempts) |-> attempts[i].query ]

\* the last call of generate_queries has returned and no new one has begun
PassReturned == hist.passes > 0 /\ pc # "query"

\* C7: a pass over a corpus of N records returns (successful, failed) with
\* successful + failed = N, successful the number of resolutions that
\* succeeded and failed the number that failed.
C7_CountsAddUpToCorpus ==
    PassReturned =>
        /\ result[1] + result[2] = Len(loaded)
        /\ result[1] = Cardinality({ i \in 1 .. Len(attempts) : attempts[i].status })
        /\ result[2] = Cardinality({ i \in 1 .. Len(attempts) : ~attempts[i].status })

\* a second pass returned one success and one failure
C7_Witness ==
    /\ PassReturned
    /\ hist.passes = 2
    /\ result = << 1, 1 >>
    /\ attempts[1].status = FALSE

\* C8: every pass attempts each record of the loaded corpus exactly once:
\* the list stays a permutation of the loaded corpus, no record is attempted
\* more often than the corpus holds it, and a pass returns only when the bag
\* of records attempted is the bag of the loaded corpus, failures included.
C8_EveryRecordOncePerPass ==
    /\ BagOfSeq(qlist) = BagOfSeq(loaded)
    /\ (pc = "query") => (BagOfSeq(Attempted) \sqsubseteq BagOfSeq(loaded))
    /\ PassReturned => BagOfSeq(Attempted) = BagOfSeq(loaded)

\* a second pass over a re-shuffled corpus of two different records returned
\* although its first resolution failed
C8_Witness ==
    /\ PassReturned
    /\ hist.passes = 2
    /\ Len(loaded) = 2
    /\ loaded[1] # loaded[2]
    /\ qlist # loaded
    /\ attempts[1].status = FALSE
    /\ Len(attempts) = 2

\* C9: in run-once mode main() runs exactly one pass and stops: scheduled()
\* and wait_for_schedule() are never evaluated, no schedule wait and no
\* pause is slept, whatever the configuration.
C9_RunOnceOnePassNoSchedule ==
    runonce =>
        /\ hist.scheduled = 0
        /\ hist.wait_calls = 0
        /\ hist.idle_sleeps = 0
        /\ hist.pauses = 0
        /\ pc \in { "main", "query", "done" }
        /\ (pc = "done") <=> (hist.passes = 1)
        /\ (pc # "done") => (hist.passes = 0 /\ ENABLED Next)

\* run-once mode finished its pass under a windowed schedule that is closed
C9_Witness ==
    /\ runonce
    /\ pc = "done"
    /\ hist.passes = 1
    /\ config.has_schedule
    /\ ~config.continuous
    /\ config.has_days
    /\ ~scheduled(config, weekday, tod)
    /\ Len(attempts) = Len(loaded)
    /\ Len(loaded) > 0

\* C10: in scheduled mode without a schedule, scheduled() returns false,
\* wait_for_schedule() returns false without sleeping and the loop stops in
\* its first iteration: no pass, no pause, no exception.
C10_NoScheduleStopsAtOnce ==
    (~runonce /\ ~config.has_schedule) =>
        /\ hist.passes = 0
        /\ hist.query_sleeps = 0
        /\ hist.idle_sleeps = 0
        /\ hist.pauses = 0
        /\ pc \in { "main", "while", "wait_for_schedule", "done" }
        /\ (pc = "main") => (hist.scheduled = 0)
        /\ (pc = "while") => (hist.scheduled = 0 /\ run)
        /\ (pc = "wait_for_schedule") =>
               (hist.scheduled = 1 /\ hist.wait_calls = 0 /\ ~sched)
        /\ (pc = "done") =>
               (hist.scheduled = 1 /\ hist.wait_calls = 1 /\ ~sched /\ ~run)
        /\ (pc # "done") => ENABLED Next

\* the loop stopped after one evaluation of scheduled() without a schedule
C10_Witness ==
    /\ ~runonce
    /\ ~config.has_schedule
    /\ pc = "done"
    /\ ~run
    /\ hist.scheduled = 1
    /\ hist.wait_calls = 1

----------------------------------------------------------------------------
(* Properties of build_queries(), checked under SpecBuild *)

\* the call of build_queries is over, by a return or by an exception
BuildOver == pc \in { "build_queries_ret", "raised" }

\* a line is well-formed: two tokens for queryperf, a 'query:' token with at
\* least two tokens after it for bind
WellFormed(format, q) ==
    IF format = "queryperf"
    THEN Len(q) = 2
    ELSE \E i \in 1 .. Len(q) : q[i] = "query:" /\ i + 2 <= Len(q)

\* the record of a well-formed line
RecordOf(format, q) ==
    IF format = "queryperf"
    THEN [ query |-> q[1], qtype |-> q[2] ]
    ELSE LET i == CHOOSE k \in 1 .. Len(q) :
                      q[k] = "query:" /\ \A j \in 1 .. k - 1 : q[j] # "query:"
         IN  [ query |-> q[i + 1], qtype |-> q[i + 2] ]

\* the records of the well-formed lines, in file order
WellFormedRecords(format, lines) ==
    LET Good(q) == WellFormed(format, q)
        good    == SelectSeq(lines, Good)
    IN  [ i \in 1 .. Len(good) |-> RecordOf(format, good[i]) ]

\* C11: when the query file named on the command line is absent or
\* unreadable, build_queries does not raise and returns the 4-entry
\* demonstration corpus, for either format.
C11_MissingFileFallsBackToDemo ==
    (/\ BuildOver
     /\ qfile.filename # ""
     /\ ~(qfile.isfile /\ qfile.readable)) =>
        (pc = "build_queries_ret" /\ loaded = DemoCorpus)

\* C12: for both formats every malformed line is skipped without raising:
\* build_queries returns exactly the records of the well-formed lines, in
\* file order.
C12_MalformedLinesSkipped ==
    (/\ BuildOver
     /\ qfile.filename # ""
     /\ qfile.isfile
     /\ qfile.readable) =>
        /\ pc = "build_queries_ret"
        /\ loaded = WellFormedRecords(qfile.format, qfile.lines)

----------------------------------------------------------------------------
(* Properties of the scheduling loop, checked under Spec *)

\* a step that starts a dispatch pass of the loop
PassStartsInLoop == pc # "query" /\ pc' = "query" /\ caller' = "loop"

\* C13: in scheduled mode a pass starts only in an iteration whose own
\* scheduled() evaluation returned true; an iteration in which scheduled()
\* is false goes idle, waits and dispatches nothing, and after every idle
\* sleep scheduled() is evaluated again before any dispatch.
C13_DispatchOnlyWhenScheduled ==
    [][ /\ PassStartsInLoop =>
            /\ pc = "while"
            /\ hist'.scheduled = hist.scheduled + 1
            /\ sched'
            /\ scheduled(config, weekday, tod)
        /\ (pc = "while" /\ hist'.scheduled # hist.scheduled /\ ~sched') =>
            pc' \in { "wait_for_schedule", "raised" }
        /\ (pc = "wait_for_schedule") =>
            /\ pc' \in { "pause", "done" }
            /\ hist'.passes = hist.passes
            /\ hist'.query_sleeps = hist.query_sleeps
            /\ attempts' = attempts
        /\ (pc = "pause") => (pc' = "while" /\ hist'.scheduled = hist.scheduled)
      ]_vars

\* after an idle wait the loop evaluated scheduled() again, found it true
\* and started a pass
C13_Witness ==
    /\ ~runonce
    /\ pc = "query"
    /\ caller = "loop"
    /\ sched
    /\ hist.idle_sleeps = 1
    /\ hist.scheduled = 2
    /\ hist.passes = 0

\* C14: in scheduled mode exactly one pause of a whole number of seconds in
\* [1, 21] is slept between two consecutive evaluations of scheduled(),
\* after a pass and after an idle wait alike; only the iteration that stops
\* the loop sleeps no pause.
C14_OnePauseBetweenEvaluations ==
    /\ [](~runonce =>
            /\ (pc \in { "main", "while" }) => (hist.pauses = hist.scheduled)
            /\ (pc \in { "query", "wait_for_schedule", "pause", "done" }) =>
                   (hist.pauses = hist.scheduled - 1))
    /\ [][ /\ (hist'.pauses # hist.pauses) =>
               /\ pc = "pause"
               /\ hist'.pauses = hist.pauses + 1
               /\ \E w \in 1 .. 21 :
                     /\ tod' = (tod + w) % 86400
                     /\ weekday' = (weekday + (tod + w) \div 86400) % 7
           /\ (pc = "pause") => (hist'.pauses = hist.pauses + 1)
           /\ (~runonce /\ pc' = "done") =>
               (pc = "wait_for_schedule" /\ hist'.pauses = hist.pauses)
         ]_vars

\* the loop slept its second pause, one after an idle wait and one after a
\* pass
C14_Witness ==
    /\ ~runonce
    /\ pc = "while"
    /\ hist.pauses = 2
    /\ hist.scheduled = 2
    /\ hist.idle_sleeps = 1
    /\ hist.passes = 1

\* C15: in scheduled mode with a schedule configured the loop never stops:
\* wait_for_schedule returns true after every idle wait, run stays true, and
\* the loop always has a next step, up to the MaxIter evaluations followed.
C15_ScheduledLoopNeverStops ==
    (~runonce /\ config.has_schedule) =>
        /\ pc # "done"
        /\ run
        /\ (hist.wait_calls = hist.idle_sleeps)
        /\ (pc # "raised" /\ ~(pc = "while" /\ hist.scheduled = MaxIter)) =>
               ENABLED Next

\* the loop is still running after two idle waits
C15_Witness ==
    /\ ~runonce
    /\ config.has_schedule
    /\ ~config.continuous
    /\ pc = "pause"
    /\ run
    /\ hist.wait_calls = 2
    /\ hist.idle_sleeps = 2
    /\ hist.passes = 0

\* C16: the idle wait depends only on the time of day, start_time and
\* end_time: any other weekday and any other days_of_week give the same
\* wait, so on an unlisted weekday with the time of day inside [start, end]
\* the wait is zero, and the loop wakes, finds scheduled() false and goes
\* back to wait_for_schedule.
C16_IdleWaitIgnoresWeekday ==
    /\ []((hist.idle_sleeps > 0) =>
            /\ \A wd \in 0 .. 6, d \in DaySets :
                  idle_wait([ config EXCEPT !.days = d ], wd, now_delta) = wait
            /\ (start_delta <= now_delta /\ now_delta <= end_delta) => (wait = 0))
    /\ [][ (/\ pc = "while"
            /\ hist'.scheduled # hist.scheduled
            /\ config.has_schedule /\ ~config.continuous /\ config.has_days
            /\ ~WeekdayListed) =>
               (~sched' /\ pc' = "wait_for_schedule")
         ]_vars

\* on a Tuesday inside the window of a Monday schedule the loop waited zero
\* seconds, woke, found scheduled() false and is back in wait_for_schedule
C16_Witness ==
    /\ ~runonce
    /\ weekday = 1
    /\ config.days = { "Mon" }
    /\ pc = "wait_for_schedule"
    /\ ~sched
    /\ hist.scheduled = 2
    /\ hist.idle_sleeps = 1
    /\ start_delta < now_delta
    /\ now_delta < end_delta
    /\ wait = 0

\* C17: a pass is strictly sequential: every resolution attempt comes with
\* exactly one sleep of a duration in [0, rtime] right before it, the
\* records are attempted one after the other in the shuffled order, and a
\* new pass starts only after the previous one has returned its result.
C17_PassIsSequential ==
    /\ []((pc = "query") =>
            /\ Len(attempts) = idx
            /\ idx <= Len(qlist)
            /\ \A i \in 1 .. idx : attempts[i].query = qlist[i])
    /\ [][ /\ (attempts' # attempts /\ attempts' # << >>) =>
               /\ pc = "query"
               /\ attempts' = Append(attempts, attempts'[Len(attempts')])
               /\ attempts'[Len(attempts')].query = qlist[idx + 1]
               /\ hist'.query_sleeps = hist.query_sleeps + 1
               /\ \E d \in 0 .. rtime :
                     /\ tod' = (tod + d) % 86400
                     /\ weekday' = (weekday + (tod + d) \div 86400) % 7
           /\ (hist'.query_sleeps # hist.query_sleeps) =>
               Len(attempts') = Len(attempts) + 1
           /\ (pc = "query") =>
               \/ pc' = "query" /\ qlist' = qlist /\ idx' = idx + 1
               \/ /\ idx = Len(qlist)
                  /\ pc' \in { "pause", "done" }
                  /\ result' = << successful, failed >>
                  /\ hist'.passes = hist.passes + 1
           /\ (pc' = "query" /\ pc # "query") =>
               (pc \in { "main", "while" } /\ idx' = 0 /\ attempts' = << >>)
         ]_vars

\* the second pass of the loop has made its second attempt, each attempt
\* after one sleep, with rtime set to 2 in the configuration
C17_Witness ==
    /\ pc = "query"
    /\ caller = "loop"
    /\ rtime = 2
    /\ hist.passes = 1
    /\ Len(attempts) = 2
    /\ hist.query_sleeps = 4
    /\ attempts[1].query # attempts[2].query

----------------------------------------------------------------------------
(* Further properties of calc_wait(), checked under SpecCalcWait *)

\* C18: for all now, start and end between 00:00:00 and 23:59:59, start > end
\* included, the wait calc_wait returns is never negative and never more
\* than 24 hours.
C18_WaitWithinOneDay ==
    CalcWaitReturned => (0 <= wait /\ wait <= 86400)

\* calc_wait returned exactly 24 hours: now is start, and end is before it
C18_Witness ==
    /\ CalcWaitReturned
    /\ end_delta < start_delta
    /\ now_delta = start_delta
    /\ wait = 86400

----------------------------------------------------------------------------
(* scheduled() against calc_wait(), checked under Spec *)

\* C19: scheduled() and calc_wait agree on the window: on a listed weekday
\* the idle wait is zero only if scheduled() is true at that time, so
\* whenever scheduled() is false on a listed weekday the wait is positive.
C19_ZeroWaitOnlyWhenScheduled ==
    (/\ pc = "pause"
     /\ ~sched
     /\ hist.idle_sleeps > 0
     /\ config.has_days
     /\ WeekdayListed
     /\ wait = 0) =>
        scheduled(config, weekday, now_delta)

----------------------------------------------------------------------------
(* The scheduling loop without a bound on its iterations, with windowed    *)
(* schedules, for progress properties.  The counters of hist are history   *)
(* only: they are set back to zero every MaxIter evaluations.              *)

\* the windows: start_time = end_time, end_time one minute after start_time,
\* and end_time two minutes after start_time
LiveSchedules ==
    [ has_schedule : { TRUE }, continuous : { FALSE }, has_days : { TRUE },
      days : { { "Mon" } },
      start_time : { strftime_HM(timedelta(0, MaxMinute, 0)) },
      end_time : { strftime_HM(timedelta(0, MaxMinute, 0)),
                   strftime_HM(timedelta(0, MaxMinute + 1, 0)),
                   strftime_HM(timedelta(0, MaxMinute + 2, 0)) },
      rtime : { 0 } ]

InitLive ==
    /\ qfile = NoFile
    /\ config \in LiveSchedules
    /\ runonce = FALSE
    /\ rtime = main_rtime(config)
    /\ loaded \in { c \in Corpora : Len(c) <= 1 }
    /\ qlist = loaded
    /\ weekday = 0
    /\ tod = timedelta(0, 0, 0)
    /\ pc = "main"
    /\ run = TRUE
    /\ sched = FALSE
    /\ now_delta = 0
    /\ start_delta = 0
    /\ end_delta = 0
    /\ wait = 0
    /\ idx = 0
    /\ successful = 0
    /\ failed = 0
    /\ attempts = << >>
    /\ result = << 0, 0 >>
    /\ caller = "none"
    /\ hist = [ scheduled |-> 0, wait_calls |-> 0, passes |-> 0,
                query_sleeps |-> 0, idle_sleeps |-> 0, pauses |-> 0 ]

\* 'while run' goes on after MaxIter evaluations: the counters start anew
ForgetHistory ==
    /\ pc = "while"
    /\ run
    /\ hist.scheduled = MaxIter
    /\ hist' = [ scheduled |-> 0, wait_calls |-> 0, passes |-> 0,
                 query_sleeps |-> 0, idle_sleeps |-> 0, pauses |-> 0 ]
    /\ UNCHANGED << qfile, config, runonce, rtime, loaded, qlist, weekday, tod,
                    pc, run, sched, now_delta, start_delta, end_delta, wait,
                    idx, successful, failed, attempts, result, caller >>

NextLive ==
    \/ MainLoop
    \/ LoopScheduled
    \/ LoopNotScheduled
    \/ WaitForScheduleSleep
    \/ Query
    \/ ReturnQueries
    \/ Pause
    \/ ForgetHistory

\* the program is single-threaded and every sleep ends: it always takes its
\* next step
SpecLive == InitLive /\ [][NextLive]_vars /\ WF_vars(NextLive)

\* C20: in scheduled mode with a non-continuous schedule whose days_of_week
\* is not empty and whose start_time <= end_time, a dispatch pass eventually
\* starts from every reachable state, also when start_time = end_time or
\* end_time is one minute after start_time.
C20_EventuallyDispatches ==
    []((/\ ~runonce
        /\ config.has_schedule /\ ~config.continuous
        /\ config.has_days /\ config.days # {}
        /\ schedule_start(config) <= schedule_end(config))
          => <>(pc = "query" /\ idx = 0))

====
